---------------------------- MODULE Spec2Model ----------------------------
(***************************************************************************)
(* Model of pkg/auth/audit/audit.go: the audit session (newAuditLog,       *)
(* write), the request body interceptor, the header filter and the         *)
(* redaction engine (concealSensitiveData, concealMap).                    *)
(*                                                                         *)
(* Bytes are modelled at the level of JSON lexemes.  A byte string is a    *)
(* sequence of tokens <<kind, text>>:                                      *)
(*   "p"  punctuation  { } [ ] : ,                                         *)
(*   "w"  insignificant whitespace (" " or "\n")                           *)
(*   "s"  a string literal (text is its content)                           *)
(*   "n"  a number literal (text is its spelling)                          *)
(*   "l"  null, true or false                                              *)
(* A decoded value (Go's interface{}) is a tagged pair:                    *)
(*   <<"s", str>>  <<"n", canonical spelling>>  <<"l", lit>>               *)
(*   <<"o", function from keys to values>>   <<"a", sequence of values>>   *)
(***************************************************************************)
EXTENDS Integers, Sequences, FiniteSets, TLC

\* ------------------------------------------------------------ constants

contentTypeJSON == "application/json"
redacted == "[redacted]"

levelNull == 0
levelMetadata == 1
levelRequest == 2
levelRequestResponse == 3
Levels == {levelNull, levelMetadata, levelRequest, levelRequestResponse}

bodyMethods == {"PUT", "POST"}
sensitiveRequestHeader == <<"Cookie", "Authorization">>
sensitiveResponseHeader == <<"Cookie", "Set-Cookie">>

\* The keys the configured pattern matches, among the keys of the model.
keysToConcealRegex == {"password", "token"}

\* ------------------------------------------------------------ tokens

P(c) == <<"p", c>>
S(c) == <<"s", c>>
N(c) == <<"n", c>>
L(c) == <<"l", c>>
SP == <<"w", " ">>
NL == <<"w", "\n">>

LBrace == P("{")
RBrace == P("}")
LBrack == P("[")
RBrack == P("]")
Colon == P(":")
Comma == P(",")

\* ------------------------------------------------------------ values

Str(s) == <<"s", s>>
Num(n) == <<"n", n>>
Null == <<"l", "null">>
Obj(f) == <<"o", f>>
Arr(q) == <<"a", q>>
EmptyMap == <<>>

IsStr(v) == v[1] = "s"
IsObj(v) == v[1] = "o"
IsArr(v) == v[1] = "a"

\* m[k] = v on a Go map.
Put(m, k, v) == [x \in (DOMAIN m) \cup {k} |-> IF x = k THEN v ELSE m[x]]

\* The byte order of the keys that occur in the model (sort.Strings, as
\* encoding/json applies it to the keys of a map).
ByteOrder ==
  << "Authorization", "Content-Type", "Cookie", "Set-Cookie", "X-Trace",
     "a", "auditID", "data", "name", "password", "requestBody",
     "responseBody", "stringData", "token", "user" >>

RECURSIVE SortedFrom(_, _)
SortedFrom(keys, i) ==
  IF i > Len(ByteOrder) THEN <<>>
  ELSE IF ByteOrder[i] \in keys
       THEN <<ByteOrder[i]>> \o SortedFrom(keys, i + 1)
       ELSE SortedFrom(keys, i + 1)

SortedKeys(keys) == SortedFrom(keys, 1)

\* strconv.ParseFloat followed by encoding/json's float formatting, on the
\* numerals of the model: a float64 with an integral value prints without
\* a fraction.
FormatFloat(raw) ==
  CASE raw = "1.0" -> "1"
    [] raw = "2.0" -> "2"
    [] OTHER -> raw

\* ------------------------------------------------------------ decoding

Fail == [ok |-> FALSE, v |-> Null, i |-> 0]
Done(v, i) == [ok |-> TRUE, v |-> v, i |-> i]

RECURSIVE SkipWs(_, _)
SkipWs(b, i) ==
  IF i <= Len(b) /\ b[i][1] = "w" THEN SkipWs(b, i + 1) ELSE i

RECURSIVE ParseValue(_, _), ParseMembers(_, _, _), ParseElements(_, _, _)

\* One JSON value starting at b[i0] (leading whitespace allowed); .i is the
\* index after it.
ParseValue(b, i0) ==
  LET i == SkipWs(b, i0) IN
  IF i > Len(b) THEN Fail
  ELSE LET t == b[i] IN
    CASE t[1] = "s" -> Done(Str(t[2]), i + 1)
      [] t[1] = "n" -> Done(Num(FormatFloat(t[2])), i + 1)
      [] t[1] = "l" -> Done(t, i + 1)
      [] t = LBrace ->
           LET j == SkipWs(b, i + 1) IN
           IF j <= Len(b) /\ b[j] = RBrace THEN Done(Obj(EmptyMap), j + 1)
           ELSE ParseMembers(b, j, EmptyMap)
      [] t = LBrack ->
           LET j == SkipWs(b, i + 1) IN
           IF j <= Len(b) /\ b[j] = RBrack THEN Done(Arr(<<>>), j + 1)
           ELSE ParseElements(b, j, <<>>)
      [] OTHER -> Fail

\* The members of an object after "{"; a repeated key keeps its last value.
ParseMembers(b, i0, acc) ==
  LET i == SkipWs(b, i0) IN
  IF i > Len(b) \/ b[i][1] # "s" THEN Fail
  ELSE LET c == SkipWs(b, i + 1) IN
    IF c > Len(b) \/ b[c] # Colon THEN Fail
    ELSE LET r == ParseValue(b, c + 1) IN
      IF ~r.ok THEN Fail
      ELSE LET acc2 == Put(acc, b[i][2], r.v)
               e == SkipWs(b, r.i)
           IN IF e > Len(b) THEN Fail
              ELSE IF b[e] = Comma THEN ParseMembers(b, e + 1, acc2)
              ELSE IF b[e] = RBrace THEN Done(Obj(acc2), e + 1)
              ELSE Fail

\* The elements of an array after "[".
ParseElements(b, i0, acc) ==
  LET r == ParseValue(b, i0) IN
  IF ~r.ok THEN Fail
  ELSE LET acc2 == Append(acc, r.v)
           e == SkipWs(b, r.i)
       IN IF e > Len(b) THEN Fail
          ELSE IF b[e] = Comma THEN ParseElements(b, e + 1, acc2)
          ELSE IF b[e] = RBrack THEN Done(Arr(acc2), e + 1)
          ELSE Fail

\* json.Valid: exactly one value, whitespace around it allowed.
Valid(b) ==
  LET r == ParseValue(b, 1) IN r.ok /\ SkipWs(b, r.i) > Len(b)

\* json.Unmarshal(body, &m) with m a map[string]interface{}: an error unless
\* the text is one JSON value that is an object or null; null leaves m nil.
Unmarshal(b) ==
  LET r == ParseValue(b, 1) IN
  IF ~Valid(b) THEN [err |-> TRUE, nil |-> TRUE, m |-> EmptyMap]
  ELSE IF IsObj(r.v) THEN [err |-> FALSE, nil |-> FALSE, m |-> r.v[2]]
  ELSE IF r.v = Null THEN [err |-> FALSE, nil |-> TRUE, m |-> EmptyMap]
  ELSE [err |-> TRUE, nil |-> TRUE, m |-> EmptyMap]

\* ------------------------------------------------------------ encoding

RECURSIVE Marshal(_), MarshalMembers(_, _), MarshalElements(_)

\* json.Marshal of a decoded value: no whitespace, map keys sorted.
Marshal(v) ==
  CASE v[1] = "o" ->
         <<LBrace>> \o MarshalMembers(v[2], SortedKeys(DOMAIN v[2])) \o <<RBrace>>
    [] v[1] = "a" -> <<LBrack>> \o MarshalElements(v[2]) \o <<RBrack>>
    [] OTHER -> <<v>>

MarshalMembers(m, ks) ==
  IF ks = <<>> THEN <<>>
  ELSE <<S(Head(ks)), Colon>> \o Marshal(m[Head(ks)])
       \o (IF Len(ks) > 1 THEN <<Comma>> ELSE <<>>)
       \o MarshalMembers(m, Tail(ks))

MarshalElements(q) ==
  IF q = <<>> THEN <<>>
  ELSE Marshal(Head(q))
       \o (IF Len(q) > 1 THEN <<Comma>> ELSE <<>>)
       \o MarshalElements(Tail(q))

\* bytes.TrimSuffix(b, suffix) for a one-token suffix.
TrimSuffix(b, tok) ==
  IF Len(b) > 0 /\ b[Len(b)] = tok THEN SubSeq(b, 1, Len(b) - 1) ELSE b

StripWs(b) == SelectSeq(b, LAMBDA t : t[1] # "w")

\* json.Compact without its check of the syntax.
CompactUnchecked(b) == [err |-> FALSE, out |-> StripWs(b)]

\* json.Compact: an error when the text is not valid JSON, otherwise the
\* text without its insignificant whitespace.
Compact(b) ==
  IF Valid(b) THEN [err |-> FALSE, out |-> StripWs(b)]
  ELSE [err |-> TRUE, out |-> <<>>]

\* ------------------------------------------------------------ redaction

\* The bytes of the strings that strings.Contains inspects.
Bytes(str) ==
  CASE str = "secrets" -> <<"s", "e", "c", "r", "e", "t", "s">>
    [] str = "/v1/secrets/a" ->
         <<"/", "v", "1", "/", "s", "e", "c", "r", "e", "t", "s", "/", "a">>
    [] str = "/v3/users" -> <<"/", "v", "3", "/", "u", "s", "e", "r", "s">>
    [] str = "/v3/secret" ->
         <<"/", "v", "3", "/", "s", "e", "c", "r", "e", "t">>
    [] str = "/v3/namespacedsecrets" ->
         <<"/", "v", "3", "/", "n", "a", "m", "e", "s", "p", "a", "c", "e", "d",
           "s", "e", "c", "r", "e", "t", "s">>
    [] OTHER -> <<>>

\* strings.HasSuffix in the place of strings.Contains.
ContainsAtEnd(str, substr) ==
  LET b == Bytes(str)
      w == Bytes(substr)
  IN Len(w) <= Len(b) /\ SubSeq(b, Len(b) - Len(w) + 1, Len(b)) = w

\* strings.Contains(s, substr)
Contains(str, substr) ==
  LET b == Bytes(str)
      w == Bytes(substr)
  IN \E i \in 1..(Len(b) + 1) :
       /\ i + Len(w) - 1 <= Len(b)
       /\ SubSeq(b, i, i + Len(w) - 1) = w

\* a.keysToConcealRegex.MatchString(key)
MatchString(key) == key \in keysToConcealRegex

RECURSIVE concealMap(_)
\* concealMap: the map after the pass, and whether the pass changed it.
concealMap(m) ==
  LET step(key) ==
        IF IsStr(m[key])
        THEN IF MatchString(key)
             THEN [changed |-> TRUE, v |-> Str(redacted)]
             ELSE [changed |-> FALSE, v |-> m[key]]
        ELSE IF IsObj(m[key])
             THEN LET nested == concealMap(m[key][2])
                  IN [changed |-> nested.changed, v |-> Obj(nested.m)]
             ELSE [changed |-> FALSE, v |-> m[key]]
  IN [changed |-> \E key \in DOMAIN m : step(key).changed,
      m |-> [key \in DOMAIN m |-> step(key).v]]

\* data, _ := m[dataKey].(map[string]interface{}) is not nil
IsMapAt(m, key) == key \in DOMAIN m /\ IsObj(m[key])

\* The two keys tried in the opposite order.
dataKeyOfStringDataFirst(m) ==
  IF IsMapAt(m, "stringData") THEN "stringData" ELSE "data"

\* The key whose object the Secret step redacts: "data", or "stringData"
\* when m["data"] is not an object.
dataKeyOf(m) == IF IsMapAt(m, "data") THEN "data" ELSE "stringData"

\* m[dataKey] = redacted in the place of m[dataKey] = data.
RedactDataWhole(m, dataKey) == Put(m, dataKey, Str(redacted))

\* for key := range data { data[key] = redacted }; m[dataKey] = data
RedactData(m, dataKey) ==
  Put(m, dataKey, Obj([key \in DOMAIN m[dataKey][2] |-> Str(redacted)]))

\* The Secret step of concealSensitiveData: the map after it and the
\* changed flag.
concealSecretData(requestURI, m) ==
  IF Contains(requestURI, "secrets")
  THEN LET dataKey == dataKeyOf(m)
       IN IF IsMapAt(m, dataKey)
          THEN [changed |-> TRUE, m |-> RedactData(m, dataKey)]
          ELSE [changed |-> FALSE, m |-> m]
  ELSE [changed |-> FALSE, m |-> m]

\* concealSensitiveData without the early return of an unchanged body.
concealSensitiveDataAlwaysMarshal(requestURI, body) ==
  LET u == Unmarshal(body) IN
  IF u.err THEN body
  ELSE Marshal(Obj(concealMap(concealSecretData(requestURI, u.m).m).m))

\* concealSensitiveData.  A nil map (a null body) reads as the empty map in
\* both steps.  json.Marshal of a decoded map cannot fail.
concealSensitiveData(requestURI, body) ==
  LET u == Unmarshal(body) IN
  IF u.err THEN body
  ELSE LET secret == concealSecretData(requestURI, u.m)
           conceal == concealMap(secret.m)
       IN IF ~conceal.changed /\ ~secret.changed
          THEN body
          ELSE Marshal(Obj(conceal.m))

\* ------------------------------------------------------------ state

VARIABLES
  Level,    \* writer.Level, fixed when the process starts
  req,      \* per session: the *http.Request handed to newAuditLog
  al,       \* per session: the auditLog (its position, reqBody, log)
  seen,     \* per session: what the downstream handler read from req.Body
  sink,     \* writer.Output: the Write calls it received, in order
  cURI,     \* redaction run: the requestURI argument
  cBody,    \* redaction run: the body argument
  cOut1,    \* redaction run: concealSensitiveData(cURI, cBody)
  cOut2,    \* redaction run: concealSensitiveData(cURI, cOut1)
  cpc       \* redaction run: "off", "start", "once" or "twice"

vars == <<Level, req, al, seen, sink, cURI, cBody, cOut1, cOut2, cpc>>
sessionVars == <<Level, req, al, seen, sink>>
concealVars == <<cURI, cBody, cOut1, cOut2, cpc>>

\* ------------------------------------------------------------ the audit session

Sessions == {"s1", "s2"}

\* uuid.NewRandom().String(): a fresh identifier for each session.
NewRandom(s) == IF s = "s1" THEN "6ba7b810-1" ELSE "6ba7b810-2"

\* time.Now().Format(time.RFC3339)
Now == "2006-01-02T15:04:05Z"

NoHeader == <<>>

\* http.Header.Get: the first value under the key, "" when there is none.
Get(headers, key) ==
  IF key \in DOMAIN headers /\ Len(headers[key]) > 0 THEN headers[key][1] ELSE ""

isExist(array, key) == \E i \in DOMAIN array : array[i] = key

filterOutHeaders(headers, filterKeys) ==
  [k \in {x \in DOMAIN headers : ~isExist(filterKeys, x)} |-> headers[k]]

\* A header map as the JSON value encoding/json gives a map[string][]string.
HeaderValue(headers) ==
  Obj([k \in DOMAIN headers |->
         Arr([i \in DOMAIN headers[k] |-> Str(headers[k][i])])])

StrList(q) == Arr([i \in DOMAIN q |-> Str(q[i])])

\* The fields of a struct that omitempty keeps, joined by commas in braces.
\* A field is <<name, text of its value, kept>>.
RECURSIVE JoinFields(_, _)
JoinFields(fields, first) ==
  IF fields = <<>> THEN <<>>
  ELSE LET f == Head(fields) IN
       IF f[3]
       THEN (IF first THEN <<>> ELSE <<Comma>>) \o <<S(f[1]), Colon>> \o f[2]
            \o JoinFields(Tail(fields), FALSE)
       ELSE JoinFields(Tail(fields), first)

MarshalStruct(fields) == <<LBrace>> \o JoinFields(fields, TRUE) \o <<RBrace>>

\* json.Marshal of a *User (a sequence: empty for nil, else one User).
MarshalUser(u) ==
  MarshalStruct(<<
    <<"name", <<S(u.Name)>>, u.Name # "">>,
    <<"group", Marshal(StrList(u.Group)), u.Group # <<>> >>,
    <<"requestUser", <<S(u.RequestUser)>>, u.RequestUser # "">>,
    <<"requestGroups", Marshal(StrList(u.RequestGroups)), u.RequestGroups # <<>> >>
  >>)

\* json.Marshal(a.log).  RequestBody and ResponseBody are never assigned
\* and omitempty drops them.
MarshalLog(log) ==
  MarshalStruct(<<
    <<"auditID", <<S(log.AuditID)>>, log.AuditID # "">>,
    <<"requestURI", <<S(log.RequestURI)>>, log.RequestURI # "">>,
    <<"user", IF log.User = <<>> THEN <<>> ELSE MarshalUser(log.User[1]),
      log.User # <<>> >>,
    <<"method", <<S(log.Method)>>, log.Method # "">>,
    <<"remoteAddr", <<S(log.RemoteAddr)>>, log.RemoteAddr # "">>,
    <<"requestTimestamp", <<S(log.RequestTimestamp)>>, log.RequestTimestamp # "">>,
    <<"responseTimestamp", <<S(log.ResponseTimestamp)>>, log.ResponseTimestamp # "">>,
    <<"responseCode", <<N(ToString(log.ResponseCode))>>, log.ResponseCode # 0>>,
    <<"requestHeader", Marshal(HeaderValue(log.RequestHeader)),
      DOMAIN log.RequestHeader # {}>>,
    <<"responseHeader", Marshal(HeaderValue(log.ResponseHeader)),
      DOMAIN log.ResponseHeader # {}>>
  >>)

\* A request body stream: the bytes still to be read, whether reading it
\* fails, and whether it is the buffer newAuditLog put in its place.
Stream(data, fails) == [data |-> data, fails |-> fails, replaced |-> FALSE]

\* ioutil.ReadAll followed by no replacement of req.Body: the stream stays
\* at its end.
readBodyLosingContent(r) ==
  IF r.Method \notin bodyMethods THEN [err |-> FALSE, bytes |-> <<>>, req |-> r]
  ELSE IF r.Body.fails
       THEN [err |-> TRUE, bytes |-> <<>>, req |-> [r EXCEPT !.Body.data = <<>>]]
       ELSE [err |-> FALSE, bytes |-> r.Body.data,
             req |-> [r EXCEPT !.Body.data = <<>>]]

\* readBodyWithoutLosingContent: the bytes read, the error, and the request
\* with its Body replaced by a buffer over those bytes.
readBodyWithoutLosingContent(r) ==
  IF r.Method \notin bodyMethods THEN [err |-> FALSE, bytes |-> <<>>, req |-> r]
  ELSE IF r.Body.fails
       THEN [err |-> TRUE, bytes |-> <<>>, req |-> [r EXCEPT !.Body.data = <<>>]]
       ELSE [err |-> FALSE, bytes |-> r.Body.data,
             req |-> [r EXCEPT !.Body =
                        [data |-> r.Body.data, fails |-> FALSE, replaced |-> TRUE]]]

NoRequest ==
  [Method |-> "", RequestURI |-> "", RemoteAddr |-> "", Header |-> NoHeader,
   Body |-> Stream(<<>>, FALSE), sent |-> <<>>]

NoLog ==
  [AuditID |-> "", RequestURI |-> "", User |-> <<>>, Method |-> "",
   RemoteAddr |-> "", RequestTimestamp |-> "", ResponseTimestamp |-> "",
   ResponseCode |-> 0, RequestHeader |-> NoHeader, ResponseHeader |-> NoHeader]

NoResponse ==
  [userInfo |-> <<>>, resHeaders |-> NoHeader, resCode |-> 0, resBody |-> <<>>]

\* pc: idle, created, failed (newAuditLog returned an error), assembled
\* (write is about to call Output.Write), written, writeFailed.
\* buffer is write's buffer before json.Compact, compact the one after it;
\* res records the arguments write was called with.
NoAuditLog ==
  [pc |-> "idle", reqBody |-> <<>>, log |-> NoLog, buffer |-> <<>>,
   compact |-> <<>>, res |-> NoResponse]

NotSeen == [done |-> FALSE, err |-> FALSE, bytes |-> <<>>]

SessionInit ==
  /\ Level \in Levels
  /\ req = [s \in Sessions |-> NoRequest]
  /\ al = [s \in Sessions |-> NoAuditLog]
  /\ seen = [s \in Sessions |-> NotSeen]
  /\ sink = <<>>

\* newAuditLog(writer, req, keysToConcealRegex) for a request drawn from
\* `requests`.
newAuditLog(s, requests) ==
  /\ al[s].pc = "idle"
  /\ \E r \in requests :
       LET log == [NoLog EXCEPT !.AuditID = NewRandom(s),
                                !.RequestURI = r.RequestURI,
                                !.Method = r.Method,
                                !.RemoteAddr = r.RemoteAddr,
                                !.RequestTimestamp = Now]
           contentType == Get(r.Header, "Content-Type")
           capture == /\ Level >= levelRequest
                      /\ r.Method \in bodyMethods
                      /\ contentType = contentTypeJSON
           read == readBodyWithoutLosingContent(r)
       IN IF capture
          THEN /\ req' = [req EXCEPT ![s] = read.req]
               /\ al' = [al EXCEPT ![s] =
                           IF read.err
                           THEN [NoAuditLog EXCEPT !.pc = "failed"]
                           ELSE [NoAuditLog EXCEPT !.pc = "created",
                                                   !.log = log,
                                                   !.reqBody = read.bytes]]
          ELSE /\ req' = [req EXCEPT ![s] = r]
               /\ al' = [al EXCEPT ![s] =
                           [NoAuditLog EXCEPT !.pc = "created", !.log = log]]
  /\ UNCHANGED <<Level, seen, sink>>

\* The downstream handler reads req.Body to its end.
HandlerRead(s) ==
  /\ al[s].pc = "created"
  /\ ~seen[s].done
  /\ seen' = [seen EXCEPT ![s] =
                [done |-> TRUE, err |-> req[s].Body.fails,
                 bytes |-> IF req[s].Body.fails THEN <<>> ELSE req[s].Body.data]]
  /\ req' = [req EXCEPT ![s].Body.data = <<>>]
  /\ UNCHANGED <<Level, al, sink>>

\* write, up to the call of a.writer.Output.Write: the log is completed,
\* the record is assembled and compacted.  The caller passes the request's
\* own headers as reqHeaders.  json.Marshal of the log cannot fail.
Assemble(s, responses) ==
  /\ al[s].pc = "created"
  /\ \E w \in responses :
       LET log == [al[s].log EXCEPT
                     !.User = w.userInfo,
                     !.ResponseTimestamp = Now,
                     !.RequestHeader =
                        filterOutHeaders(req[s].Header, sensitiveRequestHeader),
                     !.ResponseHeader =
                        filterOutHeaders(w.resHeaders, sensitiveResponseHeader),
                     !.ResponseCode = w.resCode]
           alByte == MarshalLog(log)
           withReq ==
             Level >= levelRequest /\ Len(al[s].reqBody) > 0
           withRes ==
             /\ Level >= levelRequestResponse
             /\ Get(w.resHeaders, "Content-Type") = contentTypeJSON
             /\ Len(w.resBody) > 0
           buffer ==
             TrimSuffix(alByte, RBrace)
             \o (IF withReq
                 THEN <<Comma, S("requestBody"), Colon>>
                      \o TrimSuffix(
                           concealSensitiveData(log.RequestURI, al[s].reqBody), NL)
                 ELSE <<>>)
             \o (IF withRes
                 THEN <<Comma, S("responseBody"), Colon>>
                      \o TrimSuffix(
                           concealSensitiveData(log.RequestURI, w.resBody), NL)
                 ELSE <<>>)
             \o <<RBrace>>
           c == Compact(buffer)
       IN al' = [al EXCEPT ![s] =
                   [@ EXCEPT !.pc = IF c.err THEN "writeFailed" ELSE "assembled",
                             !.log = log,
                             !.buffer = buffer,
                             !.compact = IF c.err THEN <<>> ELSE c.out \o <<NL>>,
                             !.res = w]]
  /\ UNCHANGED <<Level, req, seen, sink>>

\* The record and its newline handed over in two calls.
OutputWriteTwice(s, p, ok) ==
  <<[by |-> s, p |-> SubSeq(p, 1, Len(p) - 1), ok |-> ok],
    [by |-> s, p |-> <<NL>>, ok |-> ok]>>

\* The calls of a.writer.Output.Write that write makes: one, with the whole
\* compacted buffer.
OutputWrite(s, p, ok) == <<[by |-> s, p |-> p, ok |-> ok]>>

\* a.writer.Output.Write(compactBuffer.Bytes()) and write's return; the sink
\* accepts the bytes or returns an error.
SinkWrite(s) ==
  /\ al[s].pc = "assembled"
  /\ \E ok \in BOOLEAN :
       /\ sink' = sink \o OutputWrite(s, al[s].compact, ok)
       /\ al' = [al EXCEPT ![s].pc = IF ok THEN "written" ELSE "writeFailed"]
  /\ UNCHANGED <<Level, req, seen>>

\* ------------------------------------------------------------ redaction runs

\* The largest number of members of a body's top-level object.
MaxTop == 2

URIs == {"/v1/secrets/a", "/v3/users", "/v3/secret", "/v3/namespacedsecrets"}

Leaf == {Str("x"), Str(redacted), Num("1")}

Inner ==
  {Obj(EmptyMap), Obj([name |-> Str("x"), password |-> Str("x")])}
  \cup {Obj(k :> v) : k \in {"name", "password"}, v \in {Str("x"), Num("1")}}

Nested ==
  { Obj("name" :> Obj("password" :> Str("x"))),
    Arr(<<Obj("password" :> Str("x"))>>) }

MemberValues == Leaf \cup Inner \cup Nested

TopKeys == {"data", "stringData", "password", "name"}

\* The objects with at most MaxTop members.
TopObjects ==
  { Obj(f) : f \in UNION { [K -> MemberValues] :
                           K \in {X \in SUBSET TopKeys : Cardinality(X) <= MaxTop} } }

Reverse(q) == [i \in 1..Len(q) |-> q[Len(q) + 1 - i]]

RECURSIVE Indent(_), IndentMembers(_, _), IndentElements(_)

\* The text of a value as a client that indents sends it: whitespace after
\* separators, keys in descending order, integral numbers with a fraction.
Indent(v) ==
  CASE v[1] = "o" ->
         IF DOMAIN v[2] = {} THEN <<LBrace, RBrace>>
         ELSE <<LBrace, NL>>
              \o IndentMembers(v[2], Reverse(SortedKeys(DOMAIN v[2])))
              \o <<NL, RBrace>>
    [] v[1] = "a" -> <<LBrack, SP>> \o IndentElements(v[2]) \o <<SP, RBrack>>
    [] v[1] = "n" -> IF v[2] = "1" THEN <<N("1.0")>> ELSE <<v>>
    [] OTHER -> <<v>>

IndentMembers(m, ks) ==
  IF ks = <<>> THEN <<>>
  ELSE <<S(Head(ks)), Colon, SP>> \o Indent(m[Head(ks)])
       \o (IF Len(ks) > 1 THEN <<Comma, NL>> ELSE <<>>)
       \o IndentMembers(m, Tail(ks))

IndentElements(q) ==
  IF q = <<>> THEN <<>>
  ELSE Indent(Head(q))
       \o (IF Len(q) > 1 THEN <<Comma, SP>> ELSE <<>>)
       \o IndentElements(Tail(q))

\* Bodies that are no JSON object, are not JSON at all, or repeat a key.
OddBodies ==
  { <<L("null")>>,
    <<S("password")>>,
    <<LBrack, LBrace, S("password"), Colon, S("x"), RBrace, RBrack>>,
    <<LBrace, S("password"), Colon, S("x")>>,
    <<N("1"), Comma, S("password"), Colon, S("x")>>,
    <<LBrace, S("password"), Colon, S("x"), Comma,
      S("password"), Colon, N("2.0"), RBrace>> }

Bodies ==
  {Marshal(v) : v \in TopObjects}
  \cup {Indent(v) \o <<NL>> : v \in TopObjects}
  \cup OddBodies

ConcealInit ==
  /\ cURI \in URIs
  /\ cBody \in Bodies
  /\ cOut1 = <<>>
  /\ cOut2 = <<>>
  /\ cpc = "start"

ConcealOff ==
  /\ cURI = "/v3/users"
  /\ cBody = <<>>
  /\ cOut1 = <<>>
  /\ cOut2 = <<>>
  /\ cpc = "off"

\* A first call of concealSensitiveData.
ConcealOnce ==
  /\ cpc = "start"
  /\ cOut1' = concealSensitiveData(cURI, cBody)
  /\ cpc' = "once"
  /\ UNCHANGED <<cURI, cBody, cOut2>>

\* A second call, on the output of the first.
ConcealTwice ==
  /\ cpc = "once"
  /\ cOut2' = concealSensitiveData(cURI, cOut1)
  /\ cpc' = "twice"
  /\ UNCHANGED <<cURI, cBody, cOut1>>

\* ------------------------------------------------------------ requests and responses

RequestHeaders ==
  { [x \in {"Content-Type", "Authorization", "X-Trace"} |->
       CASE x = "Content-Type" -> <<contentTypeJSON>>
         [] x = "Authorization" -> <<"Bearer xyz">>
         [] OTHER -> <<"1">>],
    [x \in {"Content-Type", "Cookie"} |->
       IF x = "Content-Type" THEN <<"text/plain">> ELSE <<"sid=1">>],
    NoHeader }

ResponseHeaders ==
  { [x \in {"Content-Type", "Set-Cookie"} |->
       IF x = "Content-Type" THEN <<contentTypeJSON>> ELSE <<"sid=1">>],
    [x \in {"Content-Type"} |-> <<"text/plain">>],
    NoHeader }

\* {"password":"secret123","name":"alice"}
bodyLogin ==
  <<LBrace, S("password"), Colon, S("secret123"), Comma,
    S("name"), Colon, S("alice"), RBrace>>

\* {"name": "alice"} and a line end, as an encoder that ends with one sends
bodyLine == <<LBrace, S("name"), Colon, SP, S("alice"), RBrace, NL>>

\* {"name":"alice"    (cut short)
bodyCut == <<LBrace, S("name"), Colon, S("alice")>>

\* {},"responseBody":{},"auditID":"forged"
bodySplice ==
  <<LBrace, RBrace, Comma, S("responseBody"), Colon, LBrace, RBrace, Comma,
    S("auditID"), Colon, S("forged")>>

\* {"token":"abc"}
bodyToken == <<LBrace, S("token"), Colon, S("abc"), RBrace>>

RequestBodies == {<<>>, bodyLogin, bodyLine, bodyCut, bodySplice}
ResponseBodies == {<<>>, bodyToken, bodyCut}

admin ==
  [Name |-> "admin", Group |-> <<"system:authenticated">>,
   RequestUser |-> "", RequestGroups |-> <<>>]

Request(method, uri, addr, header, body, fails) ==
  [Method |-> method, RequestURI |-> uri, RemoteAddr |-> addr,
   Header |-> header, Body |-> Stream(body, fails), sent |-> body]

Requests ==
  { Request(method, uri, "10.0.0.1:4242", header, body, fails) :
      method \in {"GET", "POST"},
      uri \in {"/v3/users", "/v1/secrets/a"},
      header \in RequestHeaders,
      body \in RequestBodies,
      fails \in BOOLEAN }

\* write is called with no user and no status code, or with both.
Responses ==
  { [userInfo |-> who[1], resHeaders |-> h, resCode |-> who[2], resBody |-> b] :
      who \in {<< <<>>, 0 >>, << <<admin>>, 200 >>},
      h \in ResponseHeaders,
      b \in ResponseBodies }

\* The requests and responses of two sessions that run side by side.
FewRequests ==
  { r \in Requests :
      /\ r.Method = "POST" /\ r.RequestURI = "/v3/users"
      /\ Get(r.Header, "Content-Type") = contentTypeJSON
      /\ r.sent \in {bodyLogin, bodyCut} }

FewResponses ==
  { w \in Responses :
      /\ w.userInfo = <<admin>> /\ w.resCode = 200
      /\ Get(w.resHeaders, "Content-Type") = contentTypeJSON
      /\ w.resBody \in {<<>>, bodyToken} }

Init == SessionInit /\ ConcealOff

\* One session, over every request and response of the model.
Next ==
  \/ newAuditLog("s1", Requests) /\ UNCHANGED concealVars
  \/ HandlerRead("s1") /\ UNCHANGED concealVars
  \/ Assemble("s1", Responses) /\ UNCHANGED concealVars
  \/ SinkWrite("s1") /\ UNCHANGED concealVars

Spec == Init /\ [][Next]_vars

\* Two sessions, their steps interleaved.
NextSessions ==
  \E s \in Sessions :
    \/ newAuditLog(s, FewRequests) /\ UNCHANGED concealVars
    \/ HandlerRead(s) /\ UNCHANGED concealVars
    \/ Assemble(s, FewResponses) /\ UNCHANGED concealVars
    \/ SinkWrite(s) /\ UNCHANGED concealVars

SpecSessions == Init /\ [][NextSessions]_vars

InitConceal == ConcealInit /\ SessionInit /\ Level = levelNull
NextConceal ==
  \/ ConcealOnce /\ UNCHANGED sessionVars
  \/ ConcealTwice /\ UNCHANGED sessionVars
SpecConceal == InitConceal /\ [][NextConceal]_vars

\* ------------------------------------------------------------ claims on redaction

\* The value a text denotes.
Decode(b) == ParseValue(b, 1).v

\* The request paths of the model that name a Secret resource.
IsSecretPath(uri) == uri \in {"/v1/secrets/a", "/v3/namespacedsecrets"}

IsLeaf(v) == ~IsObj(v) /\ ~IsArr(v)

RECURSIVE RedactEveryMatch(_)
\* A value with the value of every matching key, at any depth, replaced by
\* the marker and nothing else changed.
RedactEveryMatch(v) ==
  CASE IsObj(v) ->
         Obj([k \in DOMAIN v[2] |->
                IF MatchString(k) THEN Str(redacted) ELSE RedactEveryMatch(v[2][k])])
    [] IsArr(v) -> Arr([i \in DOMAIN v[2] |-> RedactEveryMatch(v[2][i])])
    [] OTHER -> v

RECURSIVE HasSensitiveString(_)
\* Some string-valued key of m, or of an object nested in m through objects
\* only, matches the pattern.
HasSensitiveString(m) ==
  \E k \in DOMAIN m :
    \/ IsStr(m[k]) /\ MatchString(k)
    \/ IsObj(m[k]) /\ HasSensitiveString(m[k][2])

AllRedacted(v) ==
  IsObj(v) /\ \A k \in DOMAIN v[2] : v[2][k] = Str(redacted)

\* The members of object `after` under non-matching keys that hold a leaf
\* hold what they held in `before`.
PlainLeavesKept(before, after) ==
  /\ IsObj(after)
  /\ DOMAIN after[2] = DOMAIN before[2]
  /\ \A k \in DOMAIN before[2] :
       (IsLeaf(before[2][k]) /\ ~MatchString(k)) => after[2][k] = before[2][k]

ParsedObject(b) == ~Unmarshal(b).err /\ ~Unmarshal(b).nil

\* C1: for every body that is JSON, the returned body is the input with the
\* value of every key that matches the pattern, at any nesting depth,
\* replaced by the marker, and every other value as in the input.
C1_EveryMatchRedacted ==
  (cpc = "once" /\ Valid(cBody)) =>
    (Valid(cOut1) /\ Decode(cOut1) = RedactEveryMatch(Decode(cBody)))

\* C2: on a Secret path every value under the body's data object (under
\* stringData when the body has no data) is the marker in the output; on
\* any other path the members of data and stringData are not redacted
\* wholesale: those under non-matching keys keep their values.
C2_SecretData ==
  (cpc = "once" /\ ParsedObject(cBody)) =>
    LET m == Decode(cBody)[2]
        out == Decode(cOut1)
    IN /\ Valid(cOut1) /\ IsObj(out)
       /\ (IsSecretPath(cURI) /\ IsMapAt(m, "data")) =>
            (IsMapAt(out[2], "data")
             /\ DOMAIN out[2]["data"][2] = DOMAIN m["data"][2]
             /\ AllRedacted(out[2]["data"]))
       /\ (IsSecretPath(cURI) /\ "data" \notin DOMAIN m /\ IsMapAt(m, "stringData")) =>
            (IsMapAt(out[2], "stringData")
             /\ DOMAIN out[2]["stringData"][2] = DOMAIN m["stringData"][2]
             /\ AllRedacted(out[2]["stringData"]))
       /\ ~IsSecretPath(cURI) =>
            \A dk \in {"data", "stringData"} :
              IsMapAt(m, dk) =>
                (dk \in DOMAIN out[2] /\ PlainLeavesKept(m[dk], out[2][dk]))

\* C2 witnesses: a Secret path whose data object holds a plain value under a
\* non-matching key, redacted in the output; and the same body on another
\* path, kept.
C2_Witness ==
  /\ cpc = "once" /\ ParsedObject(cBody)
  /\ IsSecretPath(cURI)
  /\ IsMapAt(Decode(cBody)[2], "data")
  /\ Decode(cBody)[2]["data"] = Obj("name" :> Str("x"))
  /\ Decode(cOut1)[2]["data"] = Obj("name" :> Str(redacted))

\* C7: redaction is idempotent: a second call of concealSensitiveData on the
\* output of a first one (same requestURI, same pattern) returns that output
\* byte for byte.
C7_Idempotent == cpc = "twice" => cOut2 = cOut1

\* C7 witness: a second call made on a body the first call rewrote.
C7_Witness ==
  /\ cpc = "twice"
  /\ cOut1 # cBody
  /\ cOut2 = cOut1
  /\ IsSecretPath(cURI)
  /\ IsMapAt(Decode(cBody)[2], "data")
  /\ IsMapAt(Decode(cBody)[2], "stringData")

\* A step of concealSensitiveData applies to the decoded body: the Secret
\* step finds an object under data or stringData, or the key-pattern step
\* finds a matching string-valued key.
RedactionApplies(uri, m) ==
  \/ IsSecretPath(uri) /\ (IsMapAt(m, "data") \/ IsMapAt(m, "stringData"))
  \/ HasSensitiveString(m)

\* C8 as stated: if neither step changes any value of the parsed body (the
\* output denotes the value the input denotes), the output is the original
\* bytes.
C8_VerbatimWhenNoValueChanges ==
  (cpc = "once" /\ ~Unmarshal(cBody).err /\ Valid(cOut1)
     /\ Decode(cOut1) = Decode(cBody))
    => cOut1 = cBody

\* C8 amended: if neither step applies (no object under data/stringData on a
\* Secret path, no matching string-valued key), the output is the original
\* bytes.
C8_VerbatimWhenNoStepApplies ==
  (cpc = "once" /\ ~Unmarshal(cBody).err
     /\ ~RedactionApplies(cURI, Unmarshal(cBody).m))
    => cOut1 = cBody

\* C8 witness: an indented body with descending keys, to which no step
\* applies, returned as it came.
C8_Witness ==
  /\ cpc = "once" /\ ParsedObject(cBody)
  /\ ~RedactionApplies(cURI, Unmarshal(cBody).m)
  /\ Cardinality(DOMAIN Unmarshal(cBody).m) = 2
  /\ cBody # Marshal(Decode(cBody))
  /\ cOut1 = cBody

NonEmptyMapAt(m, key) == IsMapAt(m, key) /\ DOMAIN m[key][2] # {}

\* C9 as stated: on a Secret path, with both data and stringData in the
\* body, the first non-empty one (data before stringData) has all its values
\* redacted and the other one is not redacted wholesale.
C9_FirstNonEmptyWins ==
  (cpc = "once" /\ ParsedObject(cBody) /\ IsSecretPath(cURI)
     /\ {"data", "stringData"} \subseteq DOMAIN Unmarshal(cBody).m)
    => LET m == Unmarshal(cBody).m
           out == Decode(cOut1)[2]
           first == IF NonEmptyMapAt(m, "data") THEN "data" ELSE "stringData"
           other == IF first = "data" THEN "stringData" ELSE "data"
       IN NonEmptyMapAt(m, first) =>
            /\ AllRedacted(out[first])
            /\ IsObj(m[other]) => PlainLeavesKept(m[other], out[other])

\* C9 amended: the first object-valued one wins, empty or not: data when
\* data is an object, otherwise stringData when that is one; the other one
\* is not redacted wholesale.
C9_FirstObjectWins ==
  (cpc = "once" /\ ParsedObject(cBody) /\ IsSecretPath(cURI)
     /\ {"data", "stringData"} \subseteq DOMAIN Unmarshal(cBody).m)
    => LET m == Unmarshal(cBody).m
           out == Decode(cOut1)[2]
           first == IF IsMapAt(m, "data") THEN "data" ELSE "stringData"
           other == IF first = "data" THEN "stringData" ELSE "data"
       IN /\ IsMapAt(m, first) =>
               (AllRedacted(out[first])
                /\ DOMAIN out[first][2] = DOMAIN m[first][2])
          /\ IF IsObj(m[other]) THEN PlainLeavesKept(m[other], out[other])
             ELSE IsLeaf(m[other]) => out[other] = m[other]

\* C9 witness: both are objects holding a plain value; data is redacted and
\* stringData is kept.
C9_Witness ==
  /\ cpc = "once" /\ ParsedObject(cBody) /\ IsSecretPath(cURI)
  /\ Unmarshal(cBody).m = [data |-> Obj("name" :> Str("x")),
                           stringData |-> Obj("name" :> Str("x"))]
  /\ Decode(cOut1)[2] = [data |-> Obj("name" :> Str(redacted)),
                         stringData |-> Obj("name" :> Str("x"))]

\* ------------------------------------------------------------ claims on the session

\* The keys of the top-level object of a text, in order, repeats included.
RECURSIVE KeysAt(_, _, _)
KeysAt(b, i, depth) ==
  IF i > Len(b) THEN <<>>
  ELSE LET t == b[i] IN
    IF t = LBrace \/ t = LBrack THEN KeysAt(b, i + 1, depth + 1)
    ELSE IF t = RBrace \/ t = RBrack THEN KeysAt(b, i + 1, depth - 1)
    ELSE IF t[1] = "s" /\ depth = 1 /\ i < Len(b) /\ b[i + 1] = Colon
         THEN <<t[2]>> \o KeysAt(b, i + 2, depth)
         ELSE KeysAt(b, i + 1, depth)

TopLevelKeys(b) == KeysAt(b, 1, 0)

HasKey(b, k) == \E i \in DOMAIN TopLevelKeys(b) : TopLevelKeys(b)[i] = k

CallsBy(s) == Cardinality({i \in DOMAIN sink : sink[i].by = s})

RequestIsJSON(s) == Get(req[s].Header, "Content-Type") = contentTypeJSON
ResponseIsJSON(s) == Get(al[s].res.resHeaders, "Content-Type") = contentTypeJSON

\* C3: a record handed to the sink has a requestBody field only if the level
\* is at least Request, the request content type is JSON and the request
\* body is not empty, and a responseBody field only if the level is
\* RequestResponse, the response content type is JSON and the response body
\* is not empty.
C3_BodiesOnlyWhenPermitted ==
  \A i \in {j \in DOMAIN sink : sink[j].ok} :
    LET s == sink[i].by IN
    /\ HasKey(sink[i].p, "requestBody") =>
         (Level >= levelRequest /\ RequestIsJSON(s) /\ req[s].sent # <<>>)
    /\ HasKey(sink[i].p, "responseBody") =>
         (Level >= levelRequestResponse /\ ResponseIsJSON(s)
          /\ al[s].res.resBody # <<>>)

\* A record line: no whitespace but a final line end, and before it one JSON
\* object.
IsRecordLine(p) ==
  /\ Len(p) > 1
  /\ p[Len(p)] = NL
  /\ \A i \in 1..(Len(p) - 1) : p[i][1] # "w"
  /\ Valid(SubSeq(p, 1, Len(p) - 1))
  /\ IsObj(Decode(SubSeq(p, 1, Len(p) - 1)))

Assembled(s) == al[s].pc \in {"assembled", "written", "writeFailed"}

\* C4: everything write hands to the sink is one line holding one valid JSON
\* object; when the assembled buffer is not valid JSON, write fails and
\* hands nothing to the sink.
C4_ValidOrNothing ==
  /\ \A i \in DOMAIN sink : IsRecordLine(sink[i].p)
  /\ \A s \in Sessions :
       (Assembled(s) /\ ~Valid(al[s].buffer)) =>
         (al[s].pc = "writeFailed" /\ CallsBy(s) = 0)

\* C4 witness: a cut-short request body was embedded at level Request or
\* above, the buffer was not JSON, write failed and the sink got nothing.
C4_Witness ==
  /\ al["s1"].pc = "writeFailed"
  /\ al["s1"].reqBody = bodyCut
  /\ HasKey(al["s1"].buffer, "requestBody")
  /\ ~Valid(al["s1"].buffer)
  /\ sink = <<>>

\* The record of session s and of no other session.
OwnRecord(p, s) ==
  /\ IsRecordLine(p)
  /\ p = al[s].compact
  /\ \A t \in Sessions \ {s} : \A i \in DOMAIN p : p[i] # S(NewRandom(t))
  /\ \E i \in DOMAIN p : p[i] = S(NewRandom(s))

\* C5 as stated: a session whose write succeeded made exactly one call of
\* the sink, with its whole record; a session that failed made none; no call
\* carries anything of another session.
C5_OneCallOrNone ==
  /\ \A s \in Sessions :
       /\ al[s].pc = "written" => CallsBy(s) = 1
       /\ al[s].pc \in {"failed", "writeFailed"} => CallsBy(s) = 0
  /\ \A i \in DOMAIN sink : OwnRecord(sink[i].p, sink[i].by)

\* C5 amended: a session whose write succeeded made exactly one call of the
\* sink, with its whole record; a session that failed before the call
\* (newAuditLog failed, or the record was not valid JSON) made none; a
\* session whose call the sink answered with an error made that one call;
\* no session makes more than one, and no call carries anything of another
\* session.
C5_OneCallPerWrite ==
  /\ \A s \in Sessions :
       /\ CallsBy(s) <= 1
       /\ al[s].pc = "written" => CallsBy(s) = 1
       /\ al[s].pc \in {"idle", "created", "failed", "assembled"} => CallsBy(s) = 0
       /\ al[s].pc = "writeFailed" =>
            CallsBy(s) = (IF Valid(al[s].buffer) THEN 1 ELSE 0)
  /\ \A i \in DOMAIN sink :
       /\ OwnRecord(sink[i].p, sink[i].by)
       /\ sink[i].ok <=> al[sink[i].by].pc = "written"

\* C5 witness: two sessions, the one created second reaching the sink first,
\* each record whole.
C5_Witness ==
  /\ al["s1"].pc = "written" /\ al["s2"].pc = "written"
  /\ Len(sink) = 2
  /\ sink[1].by = "s2" /\ sink[2].by = "s1"
  /\ HasKey(sink[1].p, "requestBody") /\ HasKey(sink[2].p, "responseBody")

Captures(s) ==
  /\ Level >= levelRequest
  /\ req[s].Method \in bodyMethods
  /\ RequestIsJSON(s)

\* C6: once newAuditLog has returned without error, the request's body
\* stream yields what it would have yielded without the audit: when the body
\* is captured the stream is a new one over the bytes sent and the captured
\* copy equals them; otherwise the stream is the one that came.  What the
\* handler then reads is what was sent.
C6_BodyPreserved ==
  \A s \in Sessions :
    al[s].pc \notin {"idle", "failed"} =>
      /\ Captures(s) =>
           (req[s].Body.replaced /\ ~req[s].Body.fails /\ al[s].reqBody = req[s].sent)
      /\ ~Captures(s) => (~req[s].Body.replaced /\ al[s].reqBody = <<>>)
      /\ ~seen[s].done => req[s].Body.data = req[s].sent
      /\ seen[s].done =>
           (seen[s].err = req[s].Body.fails
            /\ (~seen[s].err => seen[s].bytes = req[s].sent))

\* C6 witness: a captured body that the handler then read in full.
C6_Witness ==
  /\ Captures("s1")
  /\ al["s1"].reqBody = bodyLogin
  /\ seen["s1"].done
  /\ seen["s1"].bytes = bodyLogin

\* The top-level keys write means the record to have: the fields of the log
\* that json.Marshal keeps, then requestBody and responseBody when write
\* appends them.
IntendedKeys(s) ==
  TopLevelKeys(MarshalLog(al[s].log))
  \o (IF Level >= levelRequest /\ al[s].reqBody # <<>>
      THEN <<"requestBody">> ELSE <<>>)
  \o (IF Level >= levelRequestResponse /\ ResponseIsJSON(s)
         /\ al[s].res.resBody # <<>>
      THEN <<"responseBody">> ELSE <<>>)

\* C10: in a record handed to the sink a captured body is exactly the value
\* of its requestBody or responseBody key: the top-level keys are the fields
\* of the log and the body keys write appended, each once.
C10_BodyIsOneValue ==
  \A i \in {j \in DOMAIN sink : sink[j].ok} : TopLevelKeys(sink[i].p) = IntendedKeys(sink[i].by)

=============================================================================
